---- MODULE Spec2Model ----
(***************************************************************************)
(* The todo handlers of src/todos/responses.rs as a state machine.         *)
(*                                                                         *)
(* The shared state is the `todos` table.  Every handler is a sequence of  *)
(* SQL statements against the pool; each statement runs in its own         *)
(* implicit transaction (no handler opens an explicit one), so a statement *)
(* is one atomic step and the steps of concurrent requests interleave.     *)
(* The statements put no condition on the table beyond what they write:    *)
(* `position` holds an integer or NULL, and nothing rejects equal values.  *)
(***************************************************************************)
EXTENDS Integers, Sequences, FiniteSets, TLC

\* Bounds of the model.
MaxTodos == 3          \* rows the serial id hands out
MaxOrderLen == 2       \* tokens in one submitted `order` form field
MaxPasswordChars == 10 \* characters in one submitted password

\* The request-handling workers (async tasks) that run concurrently; each
\* serves one request.
Procs == {"w1", "w2"}

VARIABLES
    todos,          \* the table: live id -> [done, description, position]
    next_id,        \* the serial behind todos.id
    pc,             \* per worker: the statement its handler executes next
    params,         \* per worker: the extracted request parameters
    snapshot,       \* per worker: the local `todos` Vec read by get_todos
    result,         \* per worker: what the handler returned
    response,       \* per worker: the rows rendered into the response
    last_write,     \* history: the latest committed set_positions call: its
                    \* worker, its position_data, the rows it rewrote and
                    \* the positions they held
    users,          \* the users table: the rows [id, email], in insertion order
    form,           \* per worker: the UserForm of its users create request
    existing,       \* per worker: what validate's find_by_email returned
    user,           \* per worker: the User that db::create returned
    cookies         \* per worker: the SESSION cookie added to its response

users_vars == <<users, form, existing, user, cookies>>

vars ==
    <<todos, next_id, pc, params, snapshot, result, response, last_write,
      users, form, existing, user, cookies>>

----------------------------------------------------------------------------
\* Option<T>: None is <<>>, Some(v) is <<v>>.  SQL NULL is None.
None == <<>>
Some(v) == <<v>>

\* The description texts a client submits.
Descriptions == {"a", "b"}

\* ---- id.parse::<i32>().unwrap_or(0)  (update_order) ----
\* A token is a sequence of one-character strings.
DigitValue ==
    [c \in {"0", "1", "2", "3", "4", "5", "6", "7", "8", "9"} |->
        CASE c = "0" -> 0 [] c = "1" -> 1 [] c = "2" -> 2 [] c = "3" -> 3
          [] c = "4" -> 4 [] c = "5" -> 5 [] c = "6" -> 6 [] c = "7" -> 7
          [] c = "8" -> 8 [] c = "9" -> 9]

RECURSIVE DigitsValue(_)
DigitsValue(s) ==
    IF s = <<>> THEN 0
    ELSE 10 * DigitsValue(SubSeq(s, 1, Len(s) - 1)) + DigitValue[s[Len(s)]]

\* i32::from_str: optional sign, at least one digit, only digits, in range.
ParseI32(tok) ==
    LET signed == tok # <<>> /\ tok[1] \in {"+", "-"}
        body == IF signed THEN Tail(tok) ELSE tok
        wellFormed == body # <<>> /\ \A i \in 1..Len(body) : body[i] \in DOMAIN DigitValue
        v == IF signed /\ tok[1] = "-" THEN 0 - DigitsValue(body) ELSE DigitsValue(body)
    IN  IF wellFormed /\ v >= (0 - 2147483647) - 1 /\ v <= 2147483647 THEN Some(v) ELSE None

ParseOrZero(tok) == IF ParseI32(tok) = None THEN 0 ELSE ParseI32(tok)[1]

\* ---- impl From<String> for CheckBox, From<CheckBox> for bool ----
\* As CheckBox, but every submitted value other than the default counts as
\* checked.
CheckBoxAnyValue(val) == IF val = "Off" THEN "Off" ELSE "On"

\* impl From<String> for CheckBox, lines 189-197.
CheckBox(val) == IF val = "on" THEN "On" ELSE "Off"
CheckBoxBool(cb) == cb = "On"
\* params.done.unwrap_or(String::from("Off")).into()
DoneFlag(done) == CheckBoxBool(CheckBox(IF done = None THEN "Off" ELSE done[1]))

----------------------------------------------------------------------------
\* ---- the table and get_todos ----
Row(t, i) ==
    [id |-> i, done |-> t[i].done, description |-> t[i].description,
     position |-> t[i].position]

Rows(t) == {Row(t, i) : i \in DOMAIN t}

\* ORDER BY position desc: a may come before b (NULLs sort first in desc).
DescOrdered(a, b) == a = None \/ (b # None /\ a[1] >= b[1])

\* As get_todos, but ORDER BY position asc.
get_todos_asc(t) ==
    LET n == Cardinality(DOMAIN t)
    IN  {s \in [1..n -> Rows(t)] :
            /\ \A i, j \in 1..n : i # j => s[i] # s[j]
            /\ \A i, j \in 1..n : i < j => DescOrdered(s[j].position, s[i].position)}

\* Every result the SELECT may return: all rows once, ordered by position
\* desc; rows that tie come in any order.
get_todos(t) ==
    LET n == Cardinality(DOMAIN t)
    IN  {s \in [1..n -> Rows(t)] :
            /\ \A i, j \in 1..n : i # j => s[i] # s[j]
            /\ \A i, j \in 1..n : i < j => DescOrdered(s[i].position, s[j].position)}

\* Option<i32>::cmp is Less: None sorts below every Some.
OptLess(a, b) == (a = None /\ b # None) \/ (a # None /\ b # None /\ a[1] < b[1])

\* todos.sort_by(|a, b| a.position.cmp(&b.position)): a stable sort.
RECURSIVE sort_by(_)
sort_by(s) ==
    IF s = <<>> THEN <<>>
    ELSE LET front == sort_by(SubSeq(s, 1, Len(s) - 1))
             x == s[Len(s)]
             k == Cardinality({i \in 1..Len(front) : ~OptLess(x.position, front[i].position)})
         IN  SubSeq(front, 1, k) \o <<x>> \o SubSeq(front, k + 1, Len(front))

\* into_iter().partition(|t| t.done)
Completed(s) == SelectSeq(s, LAMBDA r : r.done)
Pending(s) == SelectSeq(s, LAMBDA r : ~r.done)

\* As BottomPositions, but the pending rows come first.
BottomPositionsPendingFirst(snap) ==
    LET all == Pending(sort_by(snap)) \o Completed(sort_by(snap))
    IN  [i \in 1..Len(all) |-> <<i - 1, all[i].id>>]

\* move_complete_to_bottom, lines 92-99: the (position, id) pairs.
BottomPositions(snap) ==
    LET all == Completed(sort_by(snap)) \o Pending(sort_by(snap))
    IN  [i \in 1..Len(all) |-> <<i - 1, all[i].id>>]

\* As OrderPositions, but without the rev().
OrderPositionsForward(order) ==
    [i \in 1..Len(order) |-> <<i - 1, ParseOrZero(order[i])>>]

\* As OrderPositions, but a token that does not parse is dropped before the
\* slots are numbered.
OrderPositionsParsedOnly(order) ==
    LET parsed == SelectSeq(order, LAMBDA tok : ParseI32(tok) # None)
        n == Len(parsed)
    IN  [i \in 1..n |-> <<i - 1, ParseOrZero(parsed[n + 1 - i])>>]

\* update_order, lines 156-162: order.iter().rev().enumerate().
OrderPositions(order) ==
    LET n == Len(order)
    IN  [i \in 1..n |-> <<i - 1, ParseOrZero(order[n + 1 - i])>>]

\* The positions position_data offers to id.
Offered(position_data, id) ==
    {position_data[k][1] : k \in {k \in 1..Len(position_data) : position_data[k][2] = id}}

\* The ids position_data mentions.
Mentioned(position_data) == {position_data[k][2] : k \in 1..Len(position_data)}

\* As set_positions, but only the first pair is applied.
set_positions_first_pair(t, position_data) ==
    {[i \in DOMAIN t |->
        IF position_data # <<>> /\ i = position_data[1][2]
        THEN [t[i] EXCEPT !.position = Some(position_data[1][1])]
        ELSE t[i]]}

\* As set_positions, but a row that joins no pair loses its position.
set_positions_outer_join(t, position_data) ==
    LET hit == DOMAIN t \cap Mentioned(position_data)
        choices == {c \in [hit -> {position_data[k][1] : k \in 1..Len(position_data)}] :
                        \A i \in hit : c[i] \in Offered(position_data, i)}
    IN  {[i \in DOMAIN t |->
            [t[i] EXCEPT !.position = IF i \in hit THEN Some(c[i]) ELSE None]] :
         c \in choices}

\* set_positions: UPDATE ... FROM (unnest, unnest) WHERE original.id = new.id.
\* A row that joins one pair takes its position; a row that joins several
\* takes the position of one of them, which one is not specified; a pair
\* whose id joins no row does nothing.  The set of tables the statement may
\* leave.
set_positions(t, position_data) ==
    LET hit == DOMAIN t \cap Mentioned(position_data)
        choices == {c \in [hit -> {position_data[k][1] : k \in 1..Len(position_data)}] :
                        \A i \in hit : c[i] \in Offered(position_data, i)}
    IN  {[i \in DOMAIN t |->
            IF i \in hit THEN [t[i] EXCEPT !.position = Some(c[i])] ELSE t[i]] :
         c \in choices}

\* (select max(position) from todos) + 1: NULL when no row has a position
\* (the row is then stored with a NULL position; a column that rejects NULL
\* makes the INSERT fail instead, which is StoreFails).
MaxPositionPlusOne(t) ==
    LET held == {t[i].position[1] : i \in {i \in DOMAIN t : t[i].position # None}}
    IN  IF held = {} THEN None
        ELSE Some((CHOOSE m \in held : \A x \in held : x <= m) + 1)

----------------------------------------------------------------------------
\* ---- request parameters ----
DigitChar == <<"0", "1", "2", "3", "4", "5", "6", "7", "8", "9">>

\* The decimal text of an id, as a client submits it.
RECURSIVE IdToken(_)
IdToken(n) ==
    IF n < 10 THEN <<DigitChar[n + 1]>>
    ELSE IdToken(n \div 10) \o <<DigitChar[(n % 10) + 1]>>

\* Tokens a client may submit: the ids the serial hands out (live, deleted or
\* not yet created) and a token that is no number.
Tokens == {IdToken(i) : i \in 1..MaxTodos} \cup {<<"x">>}

Orders == UNION {[1..n -> Tokens] : n \in 1..MaxOrderLen}

PathIds == 1..MaxTodos

DoneValues == {None, Some("on"), Some("off")}

NoParams ==
    [handler |-> "none", order |-> <<>>, todo_id |-> 0, done |-> None, description |-> None]

NoResult == [status |-> "none", failed |-> "none"]
Ok == [status |-> "ok", failed |-> "none"]
Err(statement) == [status |-> "err", failed |-> statement]

NoWrite == [by |-> "none", data |-> <<>>, before |-> <<>>]

----------------------------------------------------------------------------
\* ---- users: the registration form ----
\* A String is the sequence of its chars; a char is named by a string.
Chars == {"a", "U+00E9"}

\* char::len_utf8: the bytes of the char's UTF-8 encoding.
len_utf8(c) == IF c = "a" THEN 1 ELSE 2

\* String::len: the length of the string in bytes.
RECURSIVE StringLen(_)
StringLen(s) == IF s = <<>> THEN 0 ELSE len_utf8(Head(s)) + StringLen(Tail(s))

\* The password length validate asks for (model.rs, line 107).
MinPasswordLen == 10

\* The submitted form fields.
Repeat(c, n) == [k \in 1..n |-> c]
Passwords == {Repeat(c, n) : c \in Chars, n \in 0..MaxPasswordChars}
Confirmations(password) == {password, password \o <<"a">>}
Emails == {"e1", "e2"}

NoForm ==
    [email |-> "", password |-> <<>>, password_confirmation |-> <<>>,
     password_errors |-> <<>>, email_errors |-> <<>>]

\* validate, lines 106-113: the messages joined into password_errors.
PasswordErrors(password, password_confirmation) ==
    (IF StringLen(password) < MinPasswordLen
     THEN <<"passwords must be at least 10 characters long">> ELSE <<>>)
    \o (IF password # password_confirmation
        THEN <<"password and password confirmation must match">> ELSE <<>>)

\* db::find_by_email: the user row with that email, if there is one.
find_by_email(email, t) ==
    IF \E k \in 1..Len(t) : t[k].email = email
    THEN Some(t[CHOOSE k \in 1..Len(t) : t[k].email = email])
    ELSE None

\* validate, lines 116-121: the messages joined into email_errors.
EmailErrors(found) ==
    IF found # None THEN <<"A user with this email already exists">> ELSE <<>>

\* is_valid: both error strings are empty (a join of no message).
is_valid(f) == f.password_errors = <<>> /\ f.email_errors = <<>>

\* db::create: the table with the new user's row, which takes the next id.
db_create(t, email) == Append(t, [id |-> Len(t) + 1, email |-> email])

\* No users create request has arrived.
UsersAtRest ==
    /\ form = [p \in Procs |-> NoForm]
    /\ existing = [p \in Procs |-> None]
    /\ user = [p \in Procs |-> None]
    /\ cookies = [p \in Procs |-> None]

----------------------------------------------------------------------------
\* The tables the model starts from: k rows created so far, none deleted,
\* holding the positions 0..k-1 in some order, each done or pending.  Each is
\* a table the handlers produce from the empty one: k create calls (the rows
\* tie at NULL), one move_complete_to_bottom (it numbers the rows 0..k-1 in
\* the order get_todos returned the tie) and update calls for the done flags.
InitialTables ==
    UNION {
        {[i \in 1..k |-> [done |-> d[i], description |-> "a", position |-> Some(q[i])]] :
            d \in [1..k -> BOOLEAN],
            q \in {q \in [1..k -> 0..(k - 1)] : \A i, j \in 1..k : i # j => q[i] # q[j]}} :
        k \in 0..MaxTodos}

Init ==
    /\ todos \in InitialTables
    /\ next_id = Cardinality(DOMAIN todos) + 1
    /\ pc = [p \in Procs |-> "idle"]
    /\ params = [p \in Procs |-> NoParams]
    /\ snapshot = [p \in Procs |-> <<>>]
    /\ result = [p \in Procs |-> NoResult]
    /\ response = [p \in Procs |-> <<>>]
    /\ last_write = NoWrite
    /\ users = <<>>
    /\ UsersAtRest

\* A handler returns: Ok with the rendered rows, or Err.
Return(p, res, rows) ==
    /\ pc' = [pc EXCEPT ![p] = "done"]
    /\ result' = [result EXCEPT ![p] = res]
    /\ response' = [response EXCEPT ![p] = rows]

\* render_all_todos: get_todos, then render_todos of what it returned.
render_all_todos(p) ==
    /\ pc[p] = "render"
    /\ \E s \in get_todos(todos) : Return(p, Ok, s)
    /\ UNCHANGED <<todos, next_id, params, snapshot, last_write>>
    /\ UNCHANGED users_vars

\* list: render_all_todos wrapped into the <ul> template.
list(p) ==
    /\ pc[p] = "idle"
    /\ \E s \in get_todos(todos) : Return(p, Ok, s)
    /\ UNCHANGED <<todos, next_id, params, snapshot, last_write>>
    /\ UNCHANGED users_vars

\* The table after the INSERT of create: the row takes the next serial id.
Inserted(t, id, description) ==
    [i \in DOMAIN t \cup {id} |->
        IF i = id
        THEN [done |-> FALSE, description |-> description,
              position |-> MaxPositionPlusOne(t)]
        ELSE t[i]]

\* create, lines 60-66.  The serial is capped at MaxTodos.
create(p) ==
    /\ pc[p] = "idle"
    /\ next_id <= MaxTodos
    /\ \E description \in Descriptions :
        /\ todos' = Inserted(todos, next_id, description)
        /\ params' = [params EXCEPT ![p] = [NoParams EXCEPT !.handler = "create", !.description = Some(description)]]
    /\ next_id' = next_id + 1
    /\ pc' = [pc EXCEPT ![p] = "render"]
    /\ UNCHANGED <<snapshot, result, response, last_write>>
    /\ UNCHANGED users_vars

\* move_complete_to_bottom, line 91: the snapshot read.
move_complete_to_bottom(p) ==
    /\ pc[p] = "idle"
    /\ \E s \in get_todos(todos) : snapshot' = [snapshot EXCEPT ![p] = s]
    /\ pc' = [pc EXCEPT ![p] = "mcb_set_positions"]
    /\ UNCHANGED <<todos, next_id, params, result, response, last_write>>
    /\ UNCHANGED users_vars

\* As Commit, but a row the preceding set_positions call rewrote keeps that
\* call's position: the two calls' writes are mixed.
CommitKeepsRewritten(p, position_data) ==
    /\ \E u \in set_positions(todos, position_data) :
        todos' = [i \in DOMAIN todos |->
                    IF i \in DOMAIN last_write.before THEN todos[i] ELSE u[i]]
    /\ last_write' = [by |-> p, data |-> position_data,
                      before |-> [i \in DOMAIN todos \cap Mentioned(position_data) |->
                                    todos[i].position]]

\* The set_positions statement commits.
Commit(p, position_data) ==
    /\ \E u \in set_positions(todos, position_data) : todos' = u
    /\ last_write' = [by |-> p, data |-> position_data,
                      before |-> [i \in DOMAIN todos \cap Mentioned(position_data) |->
                                    todos[i].position]]

\* move_complete_to_bottom, lines 92-100: the bulk write of the positions
\* computed from the snapshot.
mcb_set_positions(p) ==
    /\ pc[p] = "mcb_set_positions"
    /\ Commit(p, BottomPositions(snapshot[p]))
    /\ pc' = [pc EXCEPT ![p] = "render"]
    /\ UNCHANGED <<next_id, params, snapshot, result, response>>
    /\ UNCHANGED users_vars

\* update_order, lines 156-163.
update_order(p) ==
    /\ pc[p] = "idle"
    /\ \E order \in Orders :
        /\ Commit(p, OrderPositions(order))
        /\ params' = [params EXCEPT ![p] = [NoParams EXCEPT !.handler = "update_order", !.order = order]]
    /\ pc' = [pc EXCEPT ![p] = "render"]
    /\ UNCHANGED <<next_id, snapshot, result, response>>
    /\ UNCHANGED users_vars

\* delete_completed, line 108: the snapshot read.
delete_completed(p) ==
    /\ pc[p] = "idle"
    /\ \E s \in get_todos(todos) : snapshot' = [snapshot EXCEPT ![p] = s]
    /\ pc' = [pc EXCEPT ![p] = "delete_todos"]
    /\ UNCHANGED <<todos, next_id, params, result, response, last_write>>
    /\ UNCHANGED users_vars

\* As Deleted, but the surviving rows are renumbered from 0 in their order.
DeletedRenumbered(t, delete_ids) ==
    [i \in DOMAIN t \ delete_ids |->
        [t[i] EXCEPT !.position =
            Some(Cardinality({j \in DOMAIN t \ delete_ids :
                                OptLess(t[j].position, t[i].position)}))]]

\* delete_todos: delete from todos where id = ANY($1).
Deleted(t, delete_ids) == [i \in DOMAIN t \ delete_ids |-> t[i]]

\* delete_completed, lines 109-115: delete the completed rows of the
\* snapshot by id, render its pending rows.
delete_todos(p) ==
    /\ pc[p] = "delete_todos"
    /\ todos' = Deleted(todos, {Completed(snapshot[p])[k].id :
                                    k \in 1..Len(Completed(snapshot[p]))})
    /\ Return(p, Ok, Pending(snapshot[p]))
    /\ UNCHANGED <<next_id, params, snapshot, last_write>>
    /\ UNCHANGED users_vars

\* The table after UPDATE todos set done = $1 where id = $2.
Toggled(t, todo_id, check_box) ==
    [i \in DOMAIN t |-> IF i = todo_id THEN [t[i] EXCEPT !.done = check_box] ELSE t[i]]

\* update, lines 204-214.
update(p) ==
    /\ pc[p] = "idle"
    /\ \E todo_id \in PathIds, done \in DoneValues :
        /\ todos' = Toggled(todos, todo_id, DoneFlag(done))
        /\ params' = [params EXCEPT ![p] = [NoParams EXCEPT !.handler = "update", !.todo_id = todo_id, !.done = done]]
    /\ pc' = [pc EXCEPT ![p] = "render"]
    /\ UNCHANGED <<next_id, snapshot, result, response, last_write>>
    /\ UNCHANGED users_vars

\* delete: DELETE FROM todos where id = $1.
delete(p) ==
    /\ pc[p] = "idle"
    /\ \E todo_id \in PathIds :
        /\ todos' = Deleted(todos, {todo_id})
        /\ params' = [params EXCEPT ![p] = [NoParams EXCEPT !.handler = "delete", !.todo_id = todo_id]]
    /\ pc' = [pc EXCEPT ![p] = "render"]
    /\ UNCHANGED <<next_id, snapshot, result, response, last_write>>
    /\ UNCHANGED users_vars

\* The statement a handler executes next.
Statement(at) ==
    CASE at = "mcb_set_positions" -> {"set_positions"}
      [] at = "delete_todos" -> {"delete_todos"}
      [] at = "render" -> {"get_todos"}
      [] at = "idle" -> {"insert", "get_todos", "set_positions", "update", "delete"}

\* As StoreFails, but a failing set_positions of move_complete_to_bottom has
\* applied its first pair.
StoreFailsHalfway(p) ==
    /\ pc[p] # "done"
    /\ \E statement \in Statement(pc[p]) : Return(p, Err(statement), <<>>)
    /\ todos' = IF pc[p] = "mcb_set_positions" /\ snapshot[p] # <<>>
                THEN [i \in DOMAIN todos |->
                        IF i = BottomPositions(snapshot[p])[1][2]
                        THEN [todos[i] EXCEPT
                                !.position = Some(BottomPositions(snapshot[p])[1][1])]
                        ELSE todos[i]]
                ELSE todos
    /\ UNCHANGED <<next_id, params, snapshot, last_write>>
    /\ UNCHANGED users_vars

\* The statement a worker executes next fails (store unavailable): the
\* statement changes nothing and `?` returns the error.
StoreFails(p) ==
    /\ pc[p] # "done"
    /\ \E statement \in Statement(pc[p]) : Return(p, Err(statement), <<>>)
    /\ UNCHANGED <<todos, next_id, params, snapshot, last_write>>
    /\ UNCHANGED users_vars

----------------------------------------------------------------------------
\* ---- users: the create handler (routes.rs) ----
\* create, line 38, and validate: the password checks, the lookup of the
\* email, and the error strings stored in the form.
validate(p) ==
    /\ pc[p] = "idle"
    /\ \E email \in Emails, password \in Passwords :
        \E password_confirmation \in Confirmations(password) :
            LET found == find_by_email(email, users)
            IN  /\ existing' = [existing EXCEPT ![p] = found]
                /\ form' = [form EXCEPT ![p] =
                        [email |-> email, password |-> password,
                         password_confirmation |-> password_confirmation,
                         password_errors |->
                            PasswordErrors(password, password_confirmation),
                         email_errors |-> EmailErrors(found)]]
    /\ pc' = [pc EXCEPT ![p] = "validated"]
    /\ UNCHANGED <<todos, next_id, params, snapshot, result, response, last_write>>
    /\ UNCHANGED <<users, user, cookies>>

\* create, lines 39-42: a form that is not valid is rendered again.
render_form(p) ==
    /\ pc[p] = "validated"
    /\ ~is_valid(form[p])
    /\ Return(p, Ok, <<"form">>)
    /\ UNCHANGED <<todos, next_id, params, snapshot, last_write>>
    /\ UNCHANGED users_vars

\* create, line 46: db::create stores the user of a valid form.
users_create(p) ==
    /\ pc[p] = "validated"
    /\ is_valid(form[p])
    /\ users' = db_create(users, form[p].email)
    /\ user' = [user EXCEPT ![p] = Some(users'[Len(users')])]
    /\ pc' = [pc EXCEPT ![p] = "set_cookie"]
    /\ UNCHANGED <<todos, next_id, params, snapshot, result, response, last_write>>
    /\ UNCHANGED <<form, existing, cookies>>

\* create, lines 48-52, and set_cookie: the SESSION cookie for the user's
\* id is added and the handler redirects to "/"; when the stored hash has no
\* 29 leading bytes set_cookie returns Err and no cookie is added (the hash
\* is db::create's, so either may happen).
set_cookie(p) ==
    /\ pc[p] = "set_cookie"
    /\ \/ /\ cookies' = [cookies EXCEPT ![p] = Some(user[p][1].id)]
          /\ Return(p, Ok, <<"redirect">>)
       \/ /\ cookies' = cookies
          /\ Return(p, Err("set_cookie"), <<>>)
    /\ UNCHANGED <<todos, next_id, params, snapshot, last_write>>
    /\ UNCHANGED <<users, form, existing, user>>

\* find_by_email or db::create fails (store unavailable): `?` returns the
\* error; nothing is stored.
UsersStoreFails(p) ==
    /\ \/ pc[p] = "idle" /\ Return(p, Err("find_by_email"), <<>>)
       \/ pc[p] = "validated" /\ is_valid(form[p]) /\ Return(p, Err("create"), <<>>)
    /\ UNCHANGED <<todos, next_id, params, snapshot, last_write>>
    /\ UNCHANGED users_vars

\* The users tables the registration model starts from.
InitialUsers == {<<>>, <<[id |-> 1, email |-> "e1"]>>}

UsersInit ==
    /\ todos = <<>>
    /\ next_id = 1
    /\ pc = [p \in Procs |-> "idle"]
    /\ params = [p \in Procs |-> NoParams]
    /\ snapshot = [p \in Procs |-> <<>>]
    /\ result = [p \in Procs |-> NoResult]
    /\ response = [p \in Procs |-> <<>>]
    /\ last_write = NoWrite
    /\ users \in InitialUsers
    /\ UsersAtRest

\* The workers serve users create requests.
UsersNext ==
    \E p \in Procs :
        \/ validate(p)
        \/ render_form(p)
        \/ users_create(p)
        \/ set_cookie(p)
        \/ UsersStoreFails(p)

SpecUsers == UsersInit /\ [][UsersNext]_vars

----------------------------------------------------------------------------
Next ==
    \E p \in Procs :
        \/ create(p)
        \/ list(p)
        \/ move_complete_to_bottom(p)
        \/ mcb_set_positions(p)
        \/ delete_completed(p)
        \/ delete_todos(p)
        \/ update_order(p)
        \/ update(p)
        \/ delete(p)
        \/ render_all_todos(p)
        \/ StoreFails(p)

Spec == Init /\ [][Next]_vars

\* One worker alone: the requests run one after the other.
NextOne ==
    \/ create("w1")
    \/ list("w1")
    \/ move_complete_to_bottom("w1")
    \/ mcb_set_positions("w1")
    \/ delete_completed("w1")
    \/ delete_todos("w1")
    \/ update_order("w1")
    \/ update("w1")
    \/ delete("w1")
    \/ render_all_todos("w1")
    \/ StoreFails("w1")

SpecOne == Init /\ [][NextOne]_vars

----------------------------------------------------------------------------
\* ---- steps and observations the properties speak about ----

\* Worker p's update_order commits its set_positions in this step.
UpdateOrderStep(p) == pc[p] = "idle" /\ pc'[p] = "render" /\ params'[p].order # <<>>

\* Worker p's move_complete_to_bottom commits its set_positions in this step.
MoveStep(p) == pc[p] = "mcb_set_positions" /\ pc'[p] = "render"

\* Worker p's create commits its INSERT in this step.
CreateStep(p) == pc[p] = "idle" /\ pc'[p] = "render" /\ params'[p].description # None

\* The ids a submitted order parses to, in the submitted order.
ParsedIds(order) == [k \in 1..Len(order) |-> ParseOrZero(order[k])]

\* The ids of a get_todos result, in its order.
IdsOf(rows) == [k \in 1..Len(rows) |-> rows[k].id]

\* The ids of a get_todos result that lie in a set, in its order.
IdsAmong(rows, ids) == SelectSeq(IdsOf(rows), LAMBDA i : i \in ids)

\* a is listed before b in a sequence of ids that holds both once.
Before(ids, a, b) ==
    \E x, y \in 1..Len(ids) : x < y /\ ids[x] = a /\ ids[y] = b

\* Every row has an integer position and no two rows share one.
DistinctPositions(t) ==
    \A i \in DOMAIN t :
        /\ t[i].position # None
        /\ \A j \in DOMAIN t : j # i => t[j].position # t[i].position

----------------------------------------------------------------------------
\* C1: after every operation that started from distinct positions, no two
\* live todos hold the same position.
PositionUniqueness ==
    \A i, j \in DOMAIN todos :
        (i # j /\ todos[i].position # None) => todos[i].position # todos[j].position

\* C2: a step in which a set_positions call returns an error to its caller
\* leaves the table, and so every result of get_todos, as it was before the
\* call.
FailureAtomicity ==
    [][\A p \in Procs :
        (pc[p] # "done" /\ result'[p] = Err("set_positions"))
            => (todos' = todos /\ get_todos(todos') = get_todos(todos))]_vars

\* C2 witness: a move_complete_to_bottom whose set_positions failed although
\* it had positions to change; the table still holds the rows of its
\* snapshot.
FailureAtomicityWitness ==
    \E p \in Procs :
        /\ pc[p] = "done"
        /\ result[p] = Err("set_positions")
        /\ snapshot[p] \in get_todos(todos)
        /\ todos \notin set_positions(todos, BottomPositions(snapshot[p]))

\* The rows a get_todos call of worker r returns in this step, <<>> when r
\* makes no such call.
GotTodos(r) ==
    IF pc[r] = "idle" /\ pc'[r] \in {"mcb_set_positions", "delete_todos"}
    THEN snapshot'[r]
    ELSE IF pc[r] \in {"idle", "render"} /\ pc'[r] = "done" /\ result'[r] = Ok
         THEN response'[r]
         ELSE <<>>

\* C3: every get_todos result shows each row the latest set_positions call
\* rewrote with a position that call gave it: a reader sees a call's
\* assignments all applied (or, before the call commits, none of them).
ReaderIsolation ==
    [][\A r \in Procs :
        \A k \in 1..Len(GotTodos(r)) :
            GotTodos(r)[k].id \in DOMAIN last_write.before
                => /\ GotTodos(r)[k].position # None
                   /\ GotTodos(r)[k].position[1]
                        \in Offered(last_write.data, GotTodos(r)[k].id)]_vars

\* The rows of the get_todos result worker r holds: the snapshot of a
\* handler still running, or the rows a finished handler rendered.
Held(r) == IF snapshot[r] # <<>> THEN snapshot[r] ELSE response[r]

\* C3 witness: while the writer's handler is still running, another worker
\* holds a get_todos result that shows two rows the writer moved, both at
\* their new positions.
ReaderIsolationWitness ==
    \E r \in Procs :
        /\ last_write.by \notin {r, "none"}
        /\ pc[last_write.by] = "render"
        /\ \/ pc[r] \in {"mcb_set_positions", "delete_todos"}
           \/ pc[r] = "done" /\ result[r] = Ok /\ params[r] = NoParams
        /\ \E a, b \in DOMAIN last_write.before :
            /\ a # b
            /\ \A i \in {a, b} :
                \E k \in 1..Len(Held(r)) :
                    /\ Held(r)[k].id = i
                    /\ Held(r)[k].position # last_write.before[i]
                    /\ Held(r)[k].position = todos[i].position
                    /\ todos[i].position[1] \in Offered(last_write.data, i)

\* position_data breaks the precondition of set_positions: two equal
\* positions, or an id that is no live todo.
Malformed(position_data, t) ==
    \/ \E x, y \in 1..Len(position_data) : x # y /\ position_data[x][1] = position_data[y][1]
    \/ \E x \in 1..Len(position_data) : position_data[x][2] \notin DOMAIN t

\* C4: a set_positions call whose assignments hold two equal positions or an
\* id that is no live todo does not commit (it fails and changes nothing).
PreconditionEnforced ==
    [][\A p \in Procs :
        /\ UpdateOrderStep(p) => ~Malformed(OrderPositions(params'[p].order), todos)
        /\ MoveStep(p) => ~Malformed(BottomPositions(snapshot[p]), todos)]_vars

\* The submitted order names pairwise distinct live ids.
DistinctLiveIds(order, t) ==
    /\ \A k \in 1..Len(order) : ParseI32(order[k]) # None /\ ParsedIds(order)[k] \in DOMAIN t
    /\ \A x, y \in 1..Len(order) : x # y => ParsedIds(order)[x] # ParsedIds(order)[y]

\* C5: when update_order(S) commits for pairwise distinct live ids S, the ids
\* hold strictly decreasing positions in the order of S, and every get_todos
\* result, restricted to the ids of S, is S.
ExplicitReorder ==
    [][\A p \in Procs :
        (UpdateOrderStep(p) /\ DistinctLiveIds(params'[p].order, todos))
            => LET S == ParsedIds(params'[p].order)
               IN  /\ \A x, y \in 1..Len(S) :
                        x < y => /\ todos'[S[x]].position # None
                                 /\ todos'[S[y]].position # None
                                 /\ todos'[S[x]].position[1] > todos'[S[y]].position[1]
                   /\ \A s \in get_todos(todos') :
                        IdsAmong(s, {S[k] : k \in 1..Len(S)}) = S]_vars

\* C5 witness: an update_order of two distinct live ids has committed and
\* turned their order around: the first submitted id was below the second
\* and is now above it.
ExplicitReorderWitness ==
    \E p \in Procs :
        /\ pc[p] = "render"
        /\ last_write.by = p
        /\ Len(params[p].order) >= 2
        /\ DistinctLiveIds(params[p].order, todos)
        /\ LET S == ParsedIds(params[p].order)
           IN  /\ S[1] \in DOMAIN last_write.before /\ S[2] \in DOMAIN last_write.before
               /\ OptLess(last_write.before[S[1]], last_write.before[S[2]])
               /\ OptLess(todos[S[2]].position, todos[S[1]].position)

\* C6: when move_complete_to_bottom writes to the table it read (no other
\* write in between) and the positions were distinct, then in every
\* get_todos result afterwards each pending todo comes before each completed
\* one, and two pending todos, and two completed todos, come in the order
\* the snapshot had them.
PartitionPreserved ==
    [][\A p \in Procs :
        (MoveStep(p) /\ DistinctPositions(todos) /\ snapshot[p] \in get_todos(todos))
            => \A s \in get_todos(todos') :
                \A a, b \in DOMAIN todos :
                    /\ (~todos[a].done /\ todos[b].done) => Before(IdsOf(s), a, b)
                    /\ (a # b /\ todos[a].done = todos[b].done)
                        => (Before(IdsOf(s), a, b) <=> Before(IdsOf(snapshot[p]), a, b))]_vars

\* C6 witness: move_complete_to_bottom has committed on a table of distinct
\* positions where a completed todo stood above two pending ones; the
\* completed one is now at the bottom and the pending two kept their order.
PartitionPreservedWitness ==
    \E p \in Procs :
        /\ pc[p] = "render"
        /\ last_write.by = p
        /\ DOMAIN last_write.before = DOMAIN todos
        /\ DistinctPositions(todos)
        /\ \E a, b, c \in DOMAIN todos :
            /\ todos[c].done /\ ~todos[a].done /\ ~todos[b].done
            /\ Before(IdsOf(snapshot[p]), c, a)
            /\ Before(IdsOf(snapshot[p]), a, b)
            /\ OptLess(todos[c].position, todos[b].position)
            /\ OptLess(todos[b].position, todos[a].position)

\* The submitted order holds a number that is the id of no live todo.
NamesUnknownId(order, t) ==
    \E k \in 1..Len(order) : ParseI32(order[k]) # None /\ ParsedIds(order)[k] \notin DOMAIN t

\* C7: an update_order whose sequence holds ids of no live todo commits: it
\* creates and deletes no todo, gives each live id it mentions a position of
\* one of that id's slots, and leaves every other todo, and every done flag
\* and description, as they were.
UnknownIdsIgnored ==
    [][\A p \in Procs :
        (UpdateOrderStep(p) /\ NamesUnknownId(params'[p].order, todos))
            => LET position_data == OrderPositions(params'[p].order)
               IN  /\ DOMAIN todos' = DOMAIN todos
                   /\ next_id' = next_id
                   /\ \A i \in DOMAIN todos :
                        /\ todos'[i].done = todos[i].done
                        /\ todos'[i].description = todos[i].description
                        /\ IF i \in Mentioned(position_data)
                           THEN /\ todos'[i].position # None
                                /\ todos'[i].position[1] \in Offered(position_data, i)
                           ELSE todos'[i].position = todos[i].position]_vars

\* C7 witness: an update_order naming an unknown id and a live id has
\* committed; the live id moved, and some todo it did not mention is live.
UnknownIdsIgnoredWitness ==
    \E p \in Procs :
        /\ pc[p] = "render"
        /\ last_write.by = p
        /\ NamesUnknownId(params[p].order, todos)
        /\ \E i \in DOMAIN last_write.before : todos[i].position # last_write.before[i]
        /\ DOMAIN todos \ DOMAIN last_write.before # {}

\* The position update_order derives from the last occurrence of id in the
\* submitted order: the sequence is enumerated from its end.
LastOccurrencePosition(order, id) ==
    LET last == CHOOSE k \in 1..Len(order) :
                    /\ ParsedIds(order)[k] = id
                    /\ \A m \in 1..Len(order) : ParsedIds(order)[m] = id => m <= k
    IN  Len(order) - last

\* C8: when update_order commits, every live id of the sequence ends with
\* the position derived from its last occurrence in the sequence.
LastOccurrenceWins ==
    [][\A p \in Procs :
        UpdateOrderStep(p)
            => \A i \in DOMAIN todos :
                i \in Mentioned(OrderPositions(params'[p].order))
                    => todos'[i].position
                        = Some(LastOccurrencePosition(params'[p].order, i))]_vars

\* C9: when move_complete_to_bottom commits its bulk write, every live todo
\* is among the todos the write gives a position.
MoveCoversLiveSet ==
    [][\A p \in Procs :
        MoveStep(p) => DOMAIN todos \subseteq Mentioned(BottomPositions(snapshot[p]))]_vars

\* C10: when create commits, the new todo has an integer position greater
\* than the position of every other live todo, and is the first row of every
\* get_todos result.
CreateOnTop ==
    [][\A p \in Procs :
        CreateStep(p)
            => /\ todos'[next_id].position # None
               /\ \A i \in DOMAIN todos :
                    /\ todos[i].position # None
                    /\ todos'[next_id].position[1] > todos[i].position[1]
               /\ \A s \in get_todos(todos') : s[1].id = next_id]_vars

\* Worker p's delete_completed runs its DELETE in this step.
DeleteCompletedStep(p) == pc[p] = "delete_todos" /\ pc'[p] = "done" /\ result'[p] = Ok

\* Worker p's delete runs its DELETE in this step.
DeleteStep(p) == pc[p] = "idle" /\ pc'[p] = "render" /\ params'[p].handler = "delete"

\* C11: the todos delete_completed removes are exactly the todos that are
\* live and done when its DELETE is applied.
DeleteCompletedExact ==
    [][\A p \in Procs :
        DeleteCompletedStep(p)
            => DOMAIN todos \ DOMAIN todos' = {i \in DOMAIN todos : todos[i].done}]_vars

\* C12: delete and delete_completed remove rows and create none, and leave
\* the position, description and done flag of every surviving todo as they
\* were.
DeletionKeepsSurvivors ==
    [][\A p \in Procs :
        (DeleteStep(p) \/ DeleteCompletedStep(p))
            => /\ DOMAIN todos' \subseteq DOMAIN todos
               /\ \A i \in DOMAIN todos' : todos'[i] = todos[i]
               /\ DeleteStep(p) => DOMAIN todos' = DOMAIN todos \ {params'[p].todo_id}]_vars

\* C12 witness: a deletion has removed the todo at position 0 of a table of
\* three; the two survivors hold the positions 1 and 2, a gap below them.
DeletionKeepsSurvivorsWitness ==
    \E p \in Procs :
        /\ \/ pc[p] = "render" /\ params[p].handler = "delete"
           \/ pc[p] = "done" /\ result[p] = Ok /\ Len(snapshot[p]) = 3
        /\ next_id = 4
        /\ Cardinality(DOMAIN todos) = 2
        /\ {todos[i].position : i \in DOMAIN todos} = {Some(1), Some(2)}

\* C13: when update_order(S) runs directly after another update_order(S)
\* (the latest write is that call's, and it submitted the same sequence), the
\* second call leaves every position, and what get_todos returns, as the
\* first call left them.
ReorderIdempotent ==
    [][\A p, q \in Procs :
        /\ UpdateOrderStep(p)
        /\ result'[p] # Err("set_positions")
        /\ q # p
        /\ pc[q] \in {"render", "done"}
        /\ params[q].handler = "update_order"
        /\ params[q].order = params'[p].order
        /\ last_write.by = q
        => /\ \A i \in DOMAIN todos : todos'[i].position = todos[i].position
           /\ get_todos(todos') = get_todos(todos)]_vars

\* Worker p's update_order has committed its set_positions call.
Reordered(p) ==
    /\ params[p].handler = "update_order"
    /\ pc[p] \in {"render", "done"}
    /\ result[p] # Err("set_positions")

\* C14: every live todo that the latest committed set_positions call names
\* carries a position that this call assigned, whatever other set_positions
\* call ran beside it: the overlapping ids never carry a mixture.
LastWriterWins ==
    \A i \in DOMAIN last_write.before \cap DOMAIN todos :
        /\ todos[i].position # None
        /\ todos[i].position[1] \in Offered(last_write.data, i)

\* C14 witness: two update_order calls have both committed, they name two
\* ids in common and assign each a different position, and both ids carry
\* the position of the call that committed last.
LastWriterWinsWitness ==
    \E p, q \in Procs :
        /\ p # q /\ Reordered(p) /\ Reordered(q)
        /\ last_write.by = q
        /\ LET first == OrderPositions(params[p].order)
               last == OrderPositions(params[q].order)
               both == Mentioned(first) \cap Mentioned(last) \cap DOMAIN todos
           IN  /\ Cardinality(both) >= 2
               /\ \A i \in both :
                    /\ Offered(first, i) \cap Offered(last, i) = {}
                    /\ todos[i].position[1] \in Offered(last, i)

\* The slots of the position enumeration that order gives to id: the k-th
\* token from the end has slot k - 1, whether or not the tokens parse.
SlotsOf(order, id) ==
    {Len(order) - k : k \in {k \in 1..Len(order) : ParseI32(order[k]) = Some(id)}}

\* Some token of order does not parse as an id.
HasUnparseable(order) == \E k \in 1..Len(order) : ParseI32(order[k]) = None

\* C15: an update_order whose sequence holds unparseable tokens still runs
\* its set_positions call; each such token is passed on as id 0 with its own
\* slot, and every live id the sequence names gets the position of a slot
\* of its own.
UnparseableTolerated ==
    [][\A p \in Procs :
        UpdateOrderStep(p) /\ HasUnparseable(params'[p].order)
            => LET order == params'[p].order
               IN  /\ last_write'.by = p
                   /\ Len(last_write'.data) = Len(order)
                   /\ \A k \in 1..Len(order) :
                        ParseI32(order[k]) = None
                            => \E j \in 1..Len(last_write'.data) :
                                    last_write'.data[j] = <<Len(order) - k, 0>>
                   /\ DOMAIN todos' = DOMAIN todos
                   /\ \A i \in DOMAIN todos :
                        IF SlotsOf(order, i) = {}
                        THEN todos'[i] = todos[i]
                        ELSE /\ todos'[i].position # None
                             /\ todos'[i].position[1] \in SlotsOf(order, i)]_vars

\* C15 witness: update_order was given a live id followed by an unparseable
\* token; the token took slot 0 and the id was moved to position 1.
UnparseableToleratedWitness ==
    \E p \in Procs : \E i \in DOMAIN todos :
        /\ Reordered(p)
        /\ params[p].order = <<IdToken(i), <<"x">>>>
        /\ last_write.by = p
        /\ last_write.before[i] # Some(1)
        /\ todos[i].position = Some(1)

\* Worker r gets the result of a get_todos call in this step.
GetTodosStep(r) ==
    \/ pc[r] = "idle" /\ pc'[r] \in {"mcb_set_positions", "delete_todos"}
    \/ pc[r] \in {"idle", "render"} /\ pc'[r] = "done" /\ result'[r] = Ok

\* C16: a get_todos call returns one row for each live todo and no other,
\* with the todo's own fields, no lower position listed before a higher one
\* (rows without a position come first), and it leaves the table as it was.
ListOrdered ==
    [][\A r \in Procs :
        GetTodosStep(r)
            => LET s == GotTodos(r)
               IN  /\ Len(s) = Cardinality(DOMAIN todos)
                   /\ {s[k].id : k \in 1..Len(s)} = DOMAIN todos
                   /\ \A k \in 1..Len(s) :
                        /\ s[k].done = todos[s[k].id].done
                        /\ s[k].description = todos[s[k].id].description
                        /\ s[k].position = todos[s[k].id].position
                   /\ \A i, j \in 1..Len(s) :
                        i < j => /\ s[j].position = None => s[i].position = None
                                 /\ s[i].position # None /\ s[j].position # None
                                        => s[i].position[1] >= s[j].position[1]
                   /\ todos' = todos
                   /\ next_id' = next_id]_vars

\* C16 witness: list has returned three todos, positions 2, 1, 0 from the
\* front, and the todo with the lowest id is not the last of them.
ListOrderedWitness ==
    \E r \in Procs :
        /\ pc[r] = "done" /\ result[r] = Ok /\ params[r] = NoParams /\ snapshot[r] = <<>>
        /\ Len(response[r]) = 3
        /\ \A k \in 1..3 : response[r][k].position = Some(3 - k)
        /\ response[r][3].id # 1
        /\ {response[r][k].id : k \in 1..3} = DOMAIN todos

\* C17: when move_complete_to_bottom's bulk write commits, every todo that
\* is then live and pending has a higher position than every todo that is
\* then live and done.
MoveOnCurrentState ==
    [][\A p \in Procs :
        MoveStep(p)
            => \A a, b \in DOMAIN todos' :
                ~todos'[a].done /\ todos'[b].done
                    => /\ todos'[a].position # None
                       /\ todos'[b].position # None
                       /\ todos'[a].position[1] > todos'[b].position[1]]_vars

\* Worker p's update runs its UPDATE in this step.
UpdateStep(p) == pc[p] = "idle" /\ pc'[p] = "render" /\ params'[p].handler = "update"

\* C18: update(id, done) makes the todo with that id done when the submitted
\* value is "on" and pending for any other value or none; it changes no
\* position, no description and no other todo's done flag, creates and
\* removes no todo, and changes nothing when the id is not live.
ToggleFrame ==
    [][\A p \in Procs :
        UpdateStep(p)
            => LET id == params'[p].todo_id
                   done == params'[p].done
               IN  /\ DOMAIN todos' = DOMAIN todos
                   /\ id \in DOMAIN todos => todos'[id].done = (done = Some("on"))
                   /\ \A i \in DOMAIN todos :
                        /\ todos'[i].position = todos[i].position
                        /\ todos'[i].description = todos[i].description
                        /\ i # id => todos'[i].done = todos[i].done
                   /\ id \notin DOMAIN todos => todos' = todos
                   /\ next_id' = next_id]_vars

\* C18 witness: an update that submitted the value "off" has run on a live
\* todo, which is pending after it, beside another todo that is done.
ToggleFrameWitness ==
    \E p \in Procs : \E i, j \in DOMAIN todos :
        /\ pc[p] = "render" /\ params[p].handler = "update"
        /\ params[p].todo_id = i
        /\ params[p].done = Some("off")
        /\ ~todos[i].done
        /\ j # i /\ todos[j].done

\* The password of form f has at least the asked number of characters, equals
\* its confirmation, and validate found no user with the form's email.
Gate(f, found) ==
    /\ Len(f.password) >= MinPasswordLen
    /\ f.password = f.password_confirmation
    /\ found = None

\* C19: validate finds a user exactly when the table holds one with the
\* submitted email; when the users create handler goes on from validation
\* with a form that fails the gate it renders the form again with an error
\* message and stores no user; and a worker holds a created user or a session
\* cookie only for a form that passed the gate.
RegistrationGate ==
    [][\A p \in Procs :
        /\ pc[p] = "idle" /\ pc'[p] = "validated"
            => (existing'[p] = None
                    <=> \A k \in 1..Len(users) : users[k].email # form'[p].email)
        /\ pc[p] = "validated" /\ pc'[p] # "validated" /\ ~Gate(form[p], existing[p])
            => /\ users' = users
               /\ result'[p] = Ok
               /\ response'[p] = <<"form">>
               /\ form[p].password_errors \o form[p].email_errors # <<>>
        /\ user'[p] # None \/ cookies'[p] # None
            => Gate(form'[p], existing'[p])]_vars

====
